---------------------------- MODULE Spec2Model ----------------------------
(***************************************************************************)
(* Model of the three scripts of the PR reviewer:                          *)
(*   security-checker.py  (SecurityChecker, main)                          *)
(*   scripts/lint-checker.py (LintChecker, main)                           *)
(*   scripts/ai-reviewer.py  (AIReviewer, main)                            *)
(*                                                                         *)
(* A source line is a sequence of lexemes (strings).  A regular expression *)
(* of the rule catalog is a sequence of alternatives, each a sequence of   *)
(* items over lexemes; re_search runs it the way re.search does, from any  *)
(* start position.                                                         *)
(***************************************************************************)
EXTENDS Integers, Sequences, FiniteSets, TLC

(* ------------------------------ bounds -------------------------------- *)
MaxFiles == 2
MaxLines == 1
MaxIssues == 2
MaxCount == 11
MaxSevCount == 6
MaxCalls == 2
MaxLibLines == 2

(* ------------------------- small helpers ------------------------------ *)
RECURSIVE SumSeq(_)
SumSeq(s) == IF s = <<>> THEN 0 ELSE Head(s) + SumSeq(Tail(s))

RECURSIVE Concat(_)
Concat(ss) == IF ss = <<>> THEN <<>> ELSE Head(ss) \o Concat(Tail(ss))

Count(s, P(_)) == Cardinality({i \in DOMAIN s : P(s[i])})

Max(a, b) == IF a >= b THEN a ELSE b

SeqsUpTo(S, n) == UNION {[1..k -> S] : k \in 0..n}

(* ----------------------------- lexemes -------------------------------- *)
\* str.lower() / re.IGNORECASE folding of a lexeme
Lower(t) ==
  CASE t = "SELECT" -> "select"
    [] t = "Math" -> "math"
    [] t = "MD5" -> "md5"
    [] t = "PICKLE" -> "pickle"
    [] t = "EVAL" -> "eval"
    [] t = "SYSTEM" -> "system"
    [] t = "FROM" -> "from"
    [] t = "WHERE" -> "where"
    [] t = "userId" -> "userid"
    [] t = "newInstance" -> "newinstance"
    [] t = "innerHTML" -> "innerhtml"
    [] t = "readFile" -> "readfile"
    [] t = "writeFile" -> "writefile"
    [] t = "XMLInputFactory" -> "xmlinputfactory"
    [] t = "DocumentBuilderFactory" -> "documentbuilderfactory"
    [] OTHER -> t

WhiteSpace == {" ", "\t"}

\* lexemes made of word characters only ([A-Za-z0-9_]), for \b
NonWord == WhiteSpace \cup {"=", "+", "(", ")", ".", "\"", "'", ";", "{", "}", ":", ",",
                            "*", "../", "http://", "//"}
IsWord(t) == t \notin NonWord

(* --------------------------- regex engine ----------------------------- *)
\* items: q = "1" one lexeme of cls, "*" any run of cls, "?" optional,
\*        "!" negative lookahead, "b" word boundary (\b)
Lit(t) == [q |-> "1", any |-> FALSE, cls |-> {t}]
OneOf(S) == [q |-> "1", any |-> FALSE, cls |-> S]
Opt(t) == [q |-> "?", any |-> FALSE, cls |-> {t}]
DotStar == [q |-> "*", any |-> TRUE, cls |-> {}]
Ws == [q |-> "*", any |-> FALSE, cls |-> WhiteSpace]
WsPlus == <<OneOf(WhiteSpace), Ws>>
NotAhead(S) == [q |-> "!", any |-> FALSE, cls |-> S]
WordB == [q |-> "b", any |-> FALSE, cls |-> {}]
\* a pattern text that re cannot compile, such as "(": re.search raises
\* re.error before it looks at the line
Malformed == [q |-> "x", any |-> FALSE, cls |-> {}]

TokIn(t, item, ic) ==
  \/ item.any
  \/ IF ic THEN \E c \in item.cls : Lower(c) = Lower(t) ELSE t \in item.cls

StepItem(S, item, line, ic) ==
  LET n == Len(line)
      one == {p + 1 : p \in {r \in S : r <= n /\ TokIn(line[r], item, ic)}}
  IN CASE item.q = "1" -> one
       [] item.q = "?" -> S \cup one
       [] item.q = "*" ->
            {e \in 1..(n + 1) : \E p \in S :
               p <= e /\ \A k \in p..(e - 1) : TokIn(line[k], item, ic)}
       [] item.q = "!" -> {p \in S : ~(p <= n /\ TokIn(line[p], item, ic))}
       [] item.q = "b" ->
            {p \in S :
               (p <= n /\ IsWord(line[p])) # (p > 1 /\ IsWord(line[p - 1]))}

RECURSIVE RunItems(_, _, _, _)
RunItems(items, S, line, ic) ==
  IF items = <<>> THEN S
  ELSE RunItems(Tail(items), StepItem(S, Head(items), line, ic), line, ic)

\* re.search(pattern, line, flags) raises re.error
Raises(pattern) ==
  \E a \in DOMAIN pattern : \E k \in DOMAIN pattern[a] : pattern[a][k] = Malformed

\* the number of places of the line where a match of the pattern starts
Occurrences(pattern, line, ic) ==
  Cardinality({s \in 1..(Len(line) + 1) :
                 \E a \in DOMAIN pattern : RunItems(pattern[a], {s}, line, ic) # {}})

\* re.search(pattern, line, flags): a match starting at any position
re_search(pattern, line, ic) ==
  \E a \in DOMAIN pattern :
    RunItems(pattern[a], 1..(Len(line) + 1), line, ic) # {}

(* --------------------------- rule catalog ----------------------------- *)
Quote == {"\"", "'"}
\* lexemes standing for runs of [a-zA-Z0-9+/=]{10,} and [a-zA-Z0-9_-]{20,}
B64Run10 == {"hunter2hunter2", "abcdefghij0123456789"}
KeyRun20 == {"abcdefghij0123456789", "sk_live_0123456789abcdef"}

Rule(cat, id, sev, pat) ==
  [category |-> cat, id |-> id, severity |-> sev, pattern |-> pat]

\* the dict returned by _load_security_patterns, flattened in iteration order
\* (categories in insertion order, patterns in list order)
_load_security_patterns ==
  << Rule("sql_injection", "sql_injection/0", "high",
       << <<OneOf({"SELECT", "INSERT", "UPDATE", "DELETE"}), DotStar, Lit("+"),
            DotStar, OneOf(Quote)>> >>),
     Rule("sql_injection", "sql_injection/1", "high",
       << <<Lit("query"), Ws, Lit("("), Ws, OneOf(Quote), DotStar, Lit("+"),
            DotStar, OneOf(Quote), Ws, Lit(")")>> >>),
     Rule("xss", "xss/0", "high",
       << <<Lit("innerHTML"), Ws, Lit("="), Ws, DotStar, Lit("+"), DotStar>> >>),
     Rule("xss", "xss/1", "medium",
       << <<Lit("document"), Lit("."), Lit("write"), Ws, Lit("("), Ws, DotStar,
            Lit("+"), DotStar, Lit(")")>> >>),
     Rule("xss", "xss/2", "high",
       << <<Lit("eval"), Ws, Lit("("), Ws, DotStar, Lit("+"), DotStar, Lit(")")>> >>),
     Rule("insecure_crypto", "insecure_crypto/0", "medium",
       << <<OneOf({"md5", "sha1"}), Ws, Lit("(")>> >>),
     Rule("insecure_crypto", "insecure_crypto/1", "low",
       << <<Lit("Math"), Lit("."), Lit("random"), Lit("("), Lit(")")>> >>),
     Rule("hardcoded_secrets", "hardcoded_secrets/0", "high",
       << <<OneOf({"password", "secret", "key", "token", "api_key", "apikey"}), Ws,
            Lit("="), Ws, OneOf(Quote), OneOf(B64Run10), OneOf(Quote)>> >>),
     Rule("hardcoded_secrets", "hardcoded_secrets/1", "high",
       << <<OneOf({"api_key", "apikey"}), Ws, Lit("="), Ws, OneOf(Quote),
            OneOf(KeyRun20), OneOf(Quote)>> >>),
     Rule("path_traversal", "path_traversal/0", "high",
       << <<OneOf({"open", "read", "write"}), DotStar, Lit("../")>> >>),
     Rule("path_traversal", "path_traversal/1", "medium",
       << <<Lit("fs"), Lit("."), OneOf({"readFile", "writeFile"}), DotStar, Lit("+"),
            DotStar>> >>),
     Rule("insecure_deserialization", "insecure_deserialization/0", "high",
       << <<Lit("pickle"), Lit("."), OneOf({"load", "loads"}), Ws, Lit("(")>> >>),
     Rule("insecure_deserialization", "insecure_deserialization/1", "medium",
       << <<Lit("yaml"), Lit("."), Lit("load"), Ws, Lit("("), Ws, DotStar, Lit(")")>> >>),
     Rule("command_injection", "command_injection/0", "high",
       << <<OneOf({"system", "exec", "popen", "subprocess"}), Ws, Lit("("), DotStar,
            Lit("+"), DotStar, Lit(")")>> >>),
     Rule("command_injection", "command_injection/1", "high",
       << <<Lit("os"), Lit("."), Lit("system"), Ws, Lit("("), DotStar, Lit("+"),
            DotStar, Lit(")")>> >>),
     Rule("insecure_transport", "insecure_transport/0", "medium",
       << <<Lit("http://"), NotAhead({"localhost", "127.0.0.1", "0.0.0.0"})>> >>),
     Rule("insecure_transport", "insecure_transport/1", "high",
       << <<Lit("ssl"), DotStar, Lit("verify"), DotStar, Lit("false")>>,
          <<Lit("verify"), DotStar, Lit("false"), DotStar, Lit("ssl")>> >>) >>

(* ------------------------------ files --------------------------------- *)
Paths == {"a.js", "c.txt"}

\* Path(file_path).suffix.lower()
Suffix(path) ==
  CASE path = "a.js" -> ".js"
    [] path = "b.py" -> ".py"
    [] path = "c.txt" -> ".txt"
    [] path = "d.rb" -> ".rb"
    [] path = "e.php" -> ".php"
    [] path = "F.JAVA" -> ".java"
    [] path = "g.ts" -> ".ts"
    [] path = "h.go" -> ".go"
    [] path = "i.rs" -> ".rs"
    [] OTHER -> ""

\* line.strip(): drop leading and trailing whitespace lexemes
RECURSIVE LStrip(_)
LStrip(line) ==
  IF line # <<>> /\ Head(line) \in WhiteSpace THEN LStrip(Tail(line)) ELSE line
RECURSIVE RStrip(_)
RStrip(line) ==
  IF line # <<>> /\ line[Len(line)] \in WhiteSpace
  THEN RStrip(SubSeq(line, 1, Len(line) - 1)) ELSE line
Strip(line) == LStrip(RStrip(line))

\* content.split('\n') of a file holding the physical lines `lines`, the last
\* one terminated by a newline iff nl
Split(content) ==
  IF content.lines = <<>> THEN << <<>> >>
  ELSE IF content.nl THEN Append(content.lines, <<>>) ELSE content.lines

(* ------------------------ SecurityChecker ----------------------------- *)
\* variant of Finding: lines are numbered from 0 (enumerate(lines))
Finding_ZeroBased(path, n, cat, sev, rule, line) ==
  [file |-> path, line |-> n - 1, category |-> cat, severity |-> sev, rule |-> rule,
   code_snippet |-> Strip(line)]

Finding(path, n, cat, sev, rule, line) ==
  [file |-> path, line |-> n, category |-> cat, severity |-> sev, rule |-> rule,
   code_snippet |-> Strip(line)]

\* the findings of one test per line, in line order (enumerate(lines, 1))
PerLine(lines, hit(_), mk(_, _)) ==
  Concat([n \in 1..Len(lines) |->
            IF hit(lines[n]) THEN <<mk(n, lines[n])>> ELSE <<>>])

_check_javascript_security(path, lines) ==
  LET evalPat == << <<WordB, Lit("eval"), Ws, Lit("(")>> >>
      protoPat == << <<Lit("__proto__")>>,
                     <<Lit("constructor"), Lit("."), Lit("prototype")>> >>
      one(n, line) ==
        (IF re_search(evalPat, line, FALSE)
         THEN <<Finding(path, n, "code_injection", "high", "js-eval", line)>>
         ELSE <<>>)
        \o
        (IF re_search(protoPat, line, FALSE)
         THEN <<Finding(path, n, "prototype_pollution", "medium", "js-proto", line)>>
         ELSE <<>>)
  IN Concat([n \in 1..Len(lines) |-> one(n, lines[n])])

_check_python_security(path, lines) ==
  LET pat == << <<Lit("import")>> \o WsPlus
                \o <<OneOf({"pickle", "marshal", "shelve"})>> >>
      hit(line) == re_search(pat, line, FALSE)
      mk(n, line) ==
        Finding(path, n, "insecure_deserialization", "high", "py-import", line)
  IN PerLine(lines, hit, mk)

_check_java_security(path, lines) ==
  LET pat == << <<Lit("XMLInputFactory")>>, <<Lit("DocumentBuilderFactory")>> >>
      hit(line) == re_search(pat, line, FALSE)
      mk(n, line) == Finding(path, n, "xxe", "medium", "java-xml", line)
  IN PerLine(lines, hit, mk)

dangerous_functions == <<"eval", "exec", "system", "shell_exec", "passthru">>

_check_php_security(path, lines) ==
  LET one(n, line) ==
        Concat([k \in 1..Len(dangerous_functions) |->
          IF re_search(<< <<WordB, Lit(dangerous_functions[k]), Ws, Lit("(")>> >>,
                       line, FALSE)
          THEN <<Finding(path, n, "command_injection", "high",
                         dangerous_functions[k], line)>>
          ELSE <<>>])
  IN Concat([n \in 1..Len(lines) |-> one(n, lines[n])])

\* variant of _check_language_specific: a file of no known language is
\* checked as JavaScript
_check_language_specific_default_js(path, lines) ==
  LET ext == Suffix(path)
  IN CASE ext = ".py" -> _check_python_security(path, lines)
       [] ext = ".java" -> _check_java_security(path, lines)
       [] ext = ".php" -> _check_php_security(path, lines)
       [] OTHER -> _check_javascript_security(path, lines)

_check_language_specific(path, lines) ==
  LET ext == Suffix(path)
  IN CASE ext \in {".js", ".ts", ".jsx", ".tsx"} -> _check_javascript_security(path, lines)
       [] ext = ".py" -> _check_python_security(path, lines)
       [] ext = ".java" -> _check_java_security(path, lines)
       [] ext = ".php" -> _check_php_security(path, lines)
       [] OTHER -> <<>>

\* variant of ScanWith: a rule reports every place of a line where its
\* pattern matches (re.finditer in place of re.search)
ScanWith_EveryMatch(patterns, path, f) ==
  IF f.status # "ok" THEN <<>>
  ELSE
    LET lines == Split(f)
        perLine(r, n) ==
          [k \in 1..Occurrences(r.pattern, lines[n], TRUE) |->
             Finding(path, n, r.category, r.severity, r.id, lines[n])]
        perRule(r) == Concat([n \in 1..Len(lines) |-> perLine(r, n)])
        bad == {k \in 1..Len(patterns) : Raises(patterns[k].pattern)}
        upTo == IF bad = {} THEN Len(patterns)
                ELSE (CHOOSE k \in bad : \A j \in bad : k <= j) - 1
    IN Concat([k \in 1..upTo |-> perRule(patterns[k])])
       \o (IF bad = {} THEN _check_language_specific(path, lines) ELSE <<>>)

\* variant of ScanWith: the loop over the lines is the outer one, so the
\* catalog findings come line by line
ScanWith_LineMajor(patterns, path, f) ==
  IF f.status # "ok" THEN <<>>
  ELSE
    LET lines == Split(f)
        bad == {k \in 1..Len(patterns) : Raises(patterns[k].pattern)}
        cell(n, k) ==
          IF re_search(patterns[k].pattern, lines[n], TRUE)
          THEN <<Finding(path, n, patterns[k].category, patterns[k].severity,
                         patterns[k].id, lines[n])>>
          ELSE <<>>
        perLine(n) == Concat([k \in 1..Len(patterns) |-> cell(n, k)])
    IN IF bad # {} THEN <<>>
       ELSE Concat([n \in 1..Len(lines) |-> perLine(n)])
            \o _check_language_specific(path, lines)

\* the body of _scan_file for the catalog self.patterns, on a path whose file
\* is f = [status, lines, nl].  Everything is inside one try block: a failed
\* open returns the empty list; a rule whose re.search raises ends the scan,
\* and what was appended before it is returned (lines is never empty, so the
\* rule raises on the first line)
ScanWith(patterns, path, f) ==
  IF f.status # "ok" THEN <<>>
  ELSE
    LET lines == Split(f)
        perRule(r) ==
          LET hit(line) == re_search(r.pattern, line, TRUE)
              mk(n, line) ==
                Finding(path, n, r.category, r.severity, r.id, line)
          IN PerLine(lines, hit, mk)
        bad == {k \in 1..Len(patterns) : Raises(patterns[k].pattern)}
        upTo == IF bad = {} THEN Len(patterns)
                ELSE (CHOOSE k \in bad : \A j \in bad : k <= j) - 1
    IN Concat([k \in 1..upTo |-> perRule(patterns[k])])
       \o (IF bad = {} THEN _check_language_specific(path, lines) ELSE <<>>)

\* _scan_file of a checker with the catalog of _load_security_patterns
_scan_file(path, f) == ScanWith(_load_security_patterns, path, f)

\* variant of _calculate_security_score: the score is not clamped at 0
_calculate_security_score_unclamped(errors, warnings) ==
  (100 - errors * 15) - warnings * 5

\* _calculate_security_score
_calculate_security_score(errors, warnings) ==
  Max(0, (100 - errors * 15) - warnings * 5)

\* SecurityChecker.__init__: self.results
SecurityChecker ==
  [total_files |-> 0, files_with_issues |-> 0, errors |-> 0, warnings |-> 0,
   vulnerabilities |-> <<>>, security_score |-> 100]

\* variant of exists: a file that cannot be read counts as absent
exists_readable(d, path) == path \in DOMAIN d /\ d[path].status = "ok"

\* os.path.exists(file_path)
exists(d, path) == path \in DOMAIN d /\ d[path].status # "missing"

\* variant of SecScanLoop: files_with_issues is incremented for every scanned file
RECURSIVE SecScanLoop_CountsAll(_, _, _)
SecScanLoop_CountsAll(res, files, d) ==
  IF files = <<>> THEN res
  ELSE
    LET file_path == Head(files)
    IN IF ~(file_path \in DOMAIN d /\ d[file_path].status # "missing")
       THEN SecScanLoop_CountsAll(res, Tail(files), d)
       ELSE
         LET file_issues == _scan_file(file_path, d[file_path])
             next == [res EXCEPT
                        !.total_files = @ + 1,
                        !.files_with_issues = @ + 1,
                        !.vulnerabilities = @ \o file_issues]
         IN SecScanLoop_CountsAll(next, Tail(files), d)

\* the for loop of SecurityChecker.check_files over files[i..]
RECURSIVE SecScanLoop(_, _, _)
SecScanLoop(res, files, d) ==
  IF files = <<>> THEN res
  ELSE
    LET file_path == Head(files)
    IN IF ~exists(d, file_path) THEN SecScanLoop(res, Tail(files), d)
       ELSE
         LET file_issues == _scan_file(file_path, d[file_path])
             counted == [res EXCEPT !.total_files = @ + 1]
             next == IF file_issues # <<>>
                     THEN [counted EXCEPT
                             !.files_with_issues = @ + 1,
                             !.vulnerabilities = @ \o file_issues]
                     ELSE counted
         IN SecScanLoop(next, Tail(files), d)

IsHigh(v) == v.severity = "high"
NotHigh(v) == v.severity # "high"

\* SecurityChecker.check_files: scan loop, severity count, score
SecCheckFilesOp(res, files, d) ==
  LET scanned == SecScanLoop(res, files, d)
      errors == scanned.errors + Count(scanned.vulnerabilities, IsHigh)
      warnings == scanned.warnings + Count(scanned.vulnerabilities, NotHigh)
  IN [scanned EXCEPT
        !.errors = errors,
        !.warnings = warnings,
        !.security_score = _calculate_security_score(errors, warnings)]

(* --------------------------- LintChecker ------------------------------ *)
\* LintChecker.__init__: self.results
LintChecker ==
  [total_files |-> 0, files_with_issues |-> 0, errors |-> 0, warnings |-> 0,
   style_issues |-> <<>>, lint_score |-> 100]

Issue(path, n, sev, cat) ==
  [file |-> path, line |-> n, severity |-> sev, category |-> cat]

\* len() of a lexeme in characters; unlisted lexemes are single characters
CharLen(t) ==
  CASE t = "pickle" -> 6
    [] t = "loads" -> 5
    [] t = "md5" -> 3
    [] t = "Math" -> 4
    [] t = "random" -> 6
    [] t = "<121 chars>" -> 121
    [] OTHER -> 1

LineLen(line) == SumSeq([i \in DOMAIN line |-> CharLen(line[i])])

\* '    ' in line
FourSpaces(line) ==
  \E i \in 1..(Len(line) - 3) : \A k \in i..(i + 3) : line[k] = " "

\* _check_common_issues: f.readlines() gives the physical lines
_check_common_issues(path, f) ==
  IF f.status # "ok" THEN <<>>
  ELSE
    LET lines == f.lines
        one(n, line) ==
          (IF line # <<>> /\ line[Len(line)] \in WhiteSpace
           THEN <<Issue(path, n, "warning", "whitespace")>> ELSE <<>>)
          \o (IF LineLen(RStrip(line)) > 120
              THEN <<Issue(path, n, "warning", "line-length")>> ELSE <<>>)
          \o (IF (\E i \in DOMAIN line : line[i] = "\t") /\ FourSpaces(line)
              THEN <<Issue(path, n, "warning", "indentation")>> ELSE <<>>)
    IN Concat([n \in 1..Len(lines) |-> one(n, lines[n])])

\* lexemes that end with one of ; { } : ,   (str.endswith)
JsLineEnd == {";", "{", "}", ":", ","}
\* lexemes that start with one of the listed prefixes (str.startswith)
JsLineStart == {"if", "for", "while", "function", "class", "const", "let", "var", "//"}

\* _basic_javascript_check
_basic_javascript_check(path, f) ==
  IF f.status # "ok" THEN <<>>
  ELSE
    LET lines == Split(f)
        hit(line) ==
          LET stripped == Strip(line)
          IN /\ stripped # <<>>
             /\ stripped[Len(stripped)] \notin JsLineEnd
             /\ stripped[1] \notin JsLineStart
        mk(n, line) == Issue(path, n, "warning", "javascript-style")
    IN PerLine(lines, hit, mk)

\* The outcome of an external linter for one file is tool = [ran, messages]:
\* ran = FALSE stands for the exceptions the caller catches (TimeoutExpired,
\* FileNotFoundError, and JSONDecodeError where JSON is parsed); otherwise
\* messages holds one entry per reported message.

\* _check_javascript: an entry is the ESLint severity (1 or 2) of a message;
\* the reported line is taken as 1
_check_javascript(path, f, tool) ==
  IF ~tool.ran THEN _basic_javascript_check(path, f)
  ELSE [k \in DOMAIN tool.messages |->
          Issue(path, 1, IF tool.messages[k] = 2 THEN "error" ELSE "warning",
                "eslint")]

\* _check_typescript: an entry is one well-formed 'error TS' line of tsc
_check_typescript(path, f, tool) ==
  IF ~tool.ran THEN _basic_javascript_check(path, f)
  ELSE [k \in DOMAIN tool.messages |-> Issue(path, 1, "error", "typescript")]

\* _basic_python_check: a line that starts with four blanks or a tab is
\* skipped, so a flagged line has one to three leading blanks
_basic_python_check(path, f) ==
  IF f.status # "ok" THEN <<>>
  ELSE
    LET lines == f.lines
        indented(line) ==
          \/ Len(line) >= 4 /\ \A k \in 1..4 : line[k] = " "
          \/ line # <<>> /\ Head(line) = "\t"
        hit(line) ==
          /\ ~indented(line)
          /\ Strip(line) # <<>>
          /\ Head(line) = " "
        mk(n, line) == Issue(path, n, "warning", "python-indentation")
    IN PerLine(lines, hit, mk)

\* _check_python: an entry is one flake8 record
_check_python(path, f, tool) ==
  IF ~tool.ran THEN _basic_python_check(path, f)
  ELSE [k \in DOMAIN tool.messages |-> Issue(path, 1, "warning", "flake8")]

JavaLineStart == {"if", "for", "while", "class", "public", "private", "protected"}

\* _basic_java_check, which is all _check_java does
_basic_java_check(path, f) ==
  IF f.status # "ok" THEN <<>>
  ELSE
    LET lines == Split(f)
        hit(line) ==
          LET stripped == Strip(line)
              n == Len(line)
          IN /\ stripped # <<>>
             /\ stripped[Len(stripped)] = "{"
             /\ stripped[1] \notin JavaLineStart
             /\ \E i \in DOMAIN line : line[i] = " "
             /\ ~(n >= 2 /\ line[n] = "{" /\ line[n - 1] = " ")
        mk(n, line) == Issue(path, n, "warning", "java-style")
    IN PerLine(lines, hit, mk)

\* _check_go / _check_rust: messages is non-empty iff gofmt printed a diff /
\* rustfmt returned a non-zero status
_check_go(path, f, tool) ==
  IF tool.ran /\ tool.messages # <<>>
  THEN <<Issue(path, 1, "warning", "gofmt")>> ELSE <<>>

_check_rust(path, f, tool) ==
  IF tool.ran /\ tool.messages # <<>>
  THEN <<Issue(path, 1, "warning", "rustfmt")>> ELSE <<>>

\* _check_ruby: an entry is the severity string RuboCop gives an offense;
\* the fallback _basic_ruby_check returns no issue
_check_ruby(path, f, tool) ==
  IF ~tool.ran THEN <<>>
  ELSE [k \in DOMAIN tool.messages |-> Issue(path, 1, tool.messages[k], "rubocop")]

\* the extension dispatch of LintChecker.check_files; _check_cpp,
\* _check_csharp and _check_php return no issue
LintRoute(path, f, tool) ==
  LET ext == Suffix(path)
  IN CASE ext \in {".js", ".jsx"} -> _check_javascript(path, f, tool)
       [] ext \in {".ts", ".tsx"} -> _check_typescript(path, f, tool)
       [] ext = ".py" -> _check_python(path, f, tool)
       [] ext = ".java" -> _basic_java_check(path, f)
       [] ext = ".go" -> _check_go(path, f, tool)
       [] ext = ".rs" -> _check_rust(path, f, tool)
       [] ext = ".rb" -> _check_ruby(path, f, tool)
       [] OTHER -> <<>>

\* the loops over the parsed output of eslint, flake8 and rubocop call .get
\* on what they are given; the AttributeError or TypeError of an output of
\* another shape is in no except clause
ToolRaises(path, tool) ==
  /\ Suffix(path) \in {".js", ".jsx", ".py", ".rb"}
  /\ tool.ran /\ ~tool.shaped

\* check_files is left by an exception raised for one of its files
LintAborts(files, d, tools) ==
  \E i \in DOMAIN files :
    exists(d, files[i]) /\ ToolRaises(files[i], tools[files[i]])

\* the for loop of LintChecker.check_files
RECURSIVE LintScanLoop(_, _, _, _)
LintScanLoop(res, files, d, tools) ==
  IF files = <<>> THEN res
  ELSE
    LET file_path == Head(files)
    IN IF ~exists(d, file_path) THEN LintScanLoop(res, Tail(files), d, tools)
       ELSE
         LET issues == LintRoute(file_path, d[file_path], tools[file_path])
                       \o _check_common_issues(file_path, d[file_path])
             counted == [res EXCEPT !.total_files = @ + 1]
             next == IF issues # <<>>
                     THEN [counted EXCEPT
                             !.files_with_issues = @ + 1,
                             !.style_issues = @ \o issues]
                     ELSE counted
         IN LintScanLoop(next, Tail(files), d, tools)

\* variant of _calculate_lint_score: errors weigh as much as warnings
_calculate_lint_score_flat(errors, warnings) ==
  Max(0, (100 - errors * 2) - warnings * 2)

\* _calculate_lint_score
_calculate_lint_score(errors, warnings) ==
  Max(0, (100 - errors * 10) - warnings * 2)

IsError(v) == v.severity = "error"
NotError(v) == v.severity # "error"

\* LintChecker.check_files
LintCheckFilesOp(res, files, d, tools) ==
  LET scanned == LintScanLoop(res, files, d, tools)
      errors == scanned.errors + Count(scanned.style_issues, IsError)
      warnings == scanned.warnings + Count(scanned.style_issues, NotError)
  IN [scanned EXCEPT
        !.errors = errors,
        !.warnings = warnings,
        !.lint_score = _calculate_lint_score(errors, warnings)]

(* ---------------------------- AIReviewer ------------------------------ *)
\* a rational number num/den, den > 0 (Python float division)
Rat(n, d) == [num |-> n, den |-> d]
RatLess(r, k) == r.num < k * r.den

\* AIReviewer.analyze_file_changes.  out is what the collaborators did for
\* this file: out.diff is whether `git diff` printed anything, out.analysis is
\* the dict _ai_analyze_code returned (the model's JSON, or a fallback dict)
analyze_file_changes(path, f, out) ==
  IF f.status # "ok"
  THEN [file |-> path, kind |-> "error", analysis |-> [overall_score |-> 0, issues |-> <<>>]]
  ELSE IF ~out.diff
  THEN [file |-> path, kind |-> "nodiff", analysis |-> [overall_score |-> 0, issues |-> <<>>]]
  ELSE [file |-> path, kind |-> "analysis", analysis |-> out.analysis]

\* 'analysis' in result
HasAnalysis(r) == r.kind = "analysis"
\* r.get('analysis', {}).get('issues', [])
IssuesOf(r) == IF HasAnalysis(r) THEN r.analysis.issues ELSE <<>>

\* variant of _get_recommendation: the score test precedes the medium test
_get_recommendation_score_first(severity_counts, avg_score) ==
  IF severity_counts.high > 0 THEN "Not Recommended for Merge"
  ELSE IF RatLess(avg_score, 60) THEN "Needs Improvement"
  ELSE IF severity_counts.medium > 3 THEN "Merge with Caution"
  ELSE IF severity_counts.medium > 0 \/ severity_counts.low > 5
  THEN "Approved with Suggestions"
  ELSE "Approved"

\* AIReviewer._get_recommendation
_get_recommendation(severity_counts, avg_score) ==
  IF severity_counts.high > 0 THEN "Not Recommended for Merge"
  ELSE IF severity_counts.medium > 3 THEN "Merge with Caution"
  ELSE IF RatLess(avg_score, 60) THEN "Needs Improvement"
  ELSE IF severity_counts.medium > 0 \/ severity_counts.low > 5
  THEN "Approved with Suggestions"
  ELSE "Approved"

IsSev(sev, issue) == issue.severity = sev

\* variant of AvgScore: no default when there is no score
AvgScore_NoDefault(scores) ==
  IF scores # <<>> THEN Rat(SumSeq(scores), Len(scores)) ELSE Rat(0, 1)

\* avg_score = sum(scores) / len(scores) if scores else 70
AvgScore(scores) ==
  IF scores # <<>> THEN Rat(SumSeq(scores), Len(scores)) ELSE Rat(70, 1)

\* AIReviewer.generate_summary; average_score is kept exact (the report
\* rounds it to one decimal), suggestions are not modelled
generate_summary(rs) ==
  LET total_files == Len(rs)
      files_with_issues == Cardinality({i \in DOMAIN rs : IssuesOf(rs[i]) # <<>>})
      all_issues == Concat([i \in DOMAIN rs |-> IssuesOf(rs[i])])
      sevCount(sev) == Cardinality({i \in DOMAIN all_issues : IsSev(sev, all_issues[i])})
      severity_counts == [high |-> sevCount("high"), medium |-> sevCount("medium"),
                          low |-> sevCount("low")]
      cats == {all_issues[i].category : i \in DOMAIN all_issues}
      category_counts ==
        [c \in cats |-> Cardinality({i \in DOMAIN all_issues : all_issues[i].category = c})]
      withAnalysis == SelectSeq(rs, HasAnalysis)
      scores == [i \in DOMAIN withAnalysis |-> withAnalysis[i].analysis.overall_score]
      avg_score == AvgScore(scores)
  IN [summary |->
        [total_files_analyzed |-> total_files,
         files_with_issues |-> files_with_issues,
         total_issues |-> Len(all_issues),
         average_score |-> avg_score,
         severity_breakdown |-> severity_counts,
         category_breakdown |-> category_counts],
      recommendation |-> _get_recommendation(severity_counts, avg_score),
      detailed_results |-> rs]

\* the subprocess.run of `git diff`, called without a timeout, never returns
\* for one of the files; it is reached once the file has been read
GitDiffBlocks(files, d, outs) ==
  \E i \in DOMAIN files :
    exists(d, files[i]) /\ d[files[i]].status = "ok" /\ outs[files[i]].hangs

\* ai-reviewer main: the loop that analyzes each existing file
RECURSIVE AnalyzeLoop(_, _, _)
AnalyzeLoop(files, d, outs) ==
  IF files = <<>> THEN <<>>
  ELSE
    LET file_path == Head(files)
        rest == AnalyzeLoop(Tail(files), d, outs)
    IN IF exists(d, file_path)
       THEN <<analyze_file_changes(file_path, d[file_path], outs[file_path])>> \o rest
       ELSE rest

(* ------------------------- command line ------------------------------- *)
\* An argument is the sequence of its whitespace-separated words; <<>> is an
\* empty or blank argument.
SingleArgs == {<<>>} \cup {<<p>> : p \in Paths}

ArgvSet ==
  {<<>>}
  \cup {<<w>> : w \in SeqsUpTo(Paths, MaxFiles)}
  \cup {<<a, b>> : a \in SingleArgs, b \in SingleArgs}

\* an argument taken verbatim as a path (sys.argv[1:]); a blank argument or
\* one with embedded blanks names no file of Paths
PathOf(arg) == IF Len(arg) = 1 THEN arg[1] ELSE ""

\* files = [f.strip() for f in sys.argv[1].split() if f.strip()]
\*         if len(sys.argv) == 2 else sys.argv[1:]
FilesOf(av) == IF Len(av) = 1 THEN av[1] ELSE [i \in DOMAIN av |-> PathOf(av[i])]

(* ----------------------------- contents ------------------------------- *)
LClean == <<"x", "=", "1", ";">>
LHigh == <<"pickle", ".", "loads", "(", "d", ")", " ">>
LWeak == <<"md5", "(", "Math", ".", "random", "(", ")", ")">>
BatchLines == {LClean, LHigh, LWeak}

\* text files of at most MaxLines lines, each line newline-terminated
Contents ==
  {[lines |-> ls, nl |-> ls # <<>>] : ls \in SeqsUpTo(BatchLines, MaxLines)}

FileStates ==
  {[status |-> "missing", lines |-> <<>>, nl |-> FALSE],
   [status |-> "unreadable", lines |-> <<>>, nl |-> FALSE]}
  \cup {[status |-> "ok", lines |-> c.lines, nl |-> c.nl] : c \in Contents}

(* --------------------------- environment ------------------------------ *)
\* what `npx eslint` does for one file: it times out, is not installed or
\* prints no JSON (ran = FALSE); it prints a JSON list of file results whose
\* messages have the severities `messages`; or it prints JSON of another shape
\* (shaped = FALSE), on which the loop over the results raises AttributeError
NoTool == [ran |-> FALSE, messages |-> <<>>, shaped |-> TRUE]
EslintOutcomes ==
  {NoTool, [ran |-> TRUE, messages |-> <<>>, shaped |-> FALSE]}
  \cup {[ran |-> TRUE, messages |-> m, shaped |-> TRUE] :
          m \in SeqsUpTo({1, 2}, MaxIssues)}

\* severities an analysis may name; the reply is not validated, so a label
\* outside high/medium/low can appear
AiSeverities == {"high", "medium", "low", "critical"}
AiScores == {50, 85}
AiIssues == {[severity |-> sv, category |-> "quality"] : sv \in AiSeverities}

\* what the collaborators do for one file: `git diff` prints nothing, never
\* returns (subprocess.run is called without a timeout), or prints a diff for
\* which _ai_analyze_code returns `analysis`
NoDiff ==
  [diff |-> FALSE, hangs |-> FALSE, analysis |-> [overall_score |-> 0, issues |-> <<>>]]
AiOutcomes ==
  {NoDiff, [NoDiff EXCEPT !.hangs = TRUE]}
  \cup {[diff |-> TRUE, hangs |-> FALSE,
          analysis |-> [overall_score |-> sc, issues |-> is]] :
          sc \in AiScores, is \in SeqsUpTo(AiIssues, MaxIssues)}

\* for ai-reviewer only whether a file exists and can be read matters
AiFileStates ==
  {[status |-> st, lines |-> <<>>, nl |-> FALSE] : st \in {"missing", "unreadable", "ok"}}

\* a file that cannot be opened is never analysed: its outcome is immaterial
Relevant(d, e) ==
  \A p \in Paths : d[p].status # "ok" => e[p] = NoDiff

(* ---------------------------- the programs ---------------------------- *)
VARIABLES prog, argv, disk, env, pc, exit_code, results, report

vars == <<prog, argv, disk, env, pc, exit_code, results, report>>

NoReport == [written |-> FALSE]
NoEnv == [kind |-> "none"]

InitSecurity ==
  /\ prog = "security"
  /\ argv \in ArgvSet
  /\ disk \in [Paths -> FileStates]
  /\ env = NoEnv
  /\ pc = "start"
  /\ exit_code = -1
  /\ results = SecurityChecker
  /\ report = NoReport

InitLint ==
  /\ prog = "lint"
  /\ argv \in ArgvSet
  /\ disk \in [Paths -> FileStates]
  /\ env \in [kind : {"eslint"}, tools : [Paths -> EslintOutcomes]]
  /\ \A p \in Paths : Suffix(p) # ".js" => env.tools[p] = NoTool
  /\ pc = "start"
  /\ exit_code = -1
  /\ results = LintChecker
  /\ report = NoReport

InitAi ==
  /\ prog = "ai"
  /\ argv \in ArgvSet
  /\ disk \in [Paths -> AiFileStates]
  /\ env \in [kind : {"ai"}, api_key : BOOLEAN, outs : [Paths -> AiOutcomes]]
  /\ Relevant(disk, env.outs)
  /\ pc = "start"
  /\ exit_code = -1
  /\ results = <<>>
  /\ report = NoReport

Init == InitSecurity \/ InitLint \/ InitAi

\* security-checker main: len(sys.argv) < 2
SecUsage ==
  /\ prog = "security" /\ pc = "start"
  /\ Len(argv) < 1
  /\ pc' = "done" /\ exit_code' = 1
  /\ UNCHANGED <<prog, argv, disk, env, results, report>>

\* variant of SecNoFiles: an empty file list is treated as an error
SecNoFiles_Fails ==
  /\ prog = "security" /\ pc = "start"
  /\ Len(argv) >= 1 /\ FilesOf(argv) = <<>>
  /\ pc' = "done" /\ exit_code' = 1
  /\ UNCHANGED <<prog, argv, disk, env, results, report>>

\* security-checker main: not files
SecNoFiles ==
  /\ prog = "security" /\ pc = "start"
  /\ Len(argv) >= 1 /\ FilesOf(argv) = <<>>
  /\ pc' = "done" /\ exit_code' = 0
  /\ UNCHANGED <<prog, argv, disk, env, results, report>>

\* security-checker main: checker.check_files(files), results saved to
\* security-results.json
SecCheckFiles ==
  /\ prog = "security" /\ pc = "start"
  /\ Len(argv) >= 1 /\ FilesOf(argv) # <<>>
  /\ results' = SecCheckFilesOp(results, FilesOf(argv), disk)
  /\ report' = [written |-> TRUE, body |-> results']
  /\ pc' = "checked"
  /\ UNCHANGED <<prog, argv, disk, env, exit_code>>

\* variant of SecExit: the final sys.exit(1) is missing
SecExit_NoFailure ==
  /\ prog = "security" /\ pc = "checked"
  /\ exit_code' = 0
  /\ pc' = "done"
  /\ UNCHANGED <<prog, argv, disk, env, results, report>>

\* security-checker main: sys.exit(1) if errors > 0, else fall off the end
SecExit ==
  /\ prog = "security" /\ pc = "checked"
  /\ exit_code' = IF results.errors > 0 THEN 1 ELSE 0
  /\ pc' = "done"
  /\ UNCHANGED <<prog, argv, disk, env, results, report>>

\* lint-checker main: len(sys.argv) < 2
LintUsage ==
  /\ prog = "lint" /\ pc = "start"
  /\ Len(argv) < 1
  /\ pc' = "done" /\ exit_code' = 1
  /\ UNCHANGED <<prog, argv, disk, env, results, report>>

\* lint-checker main: not files
LintNoFiles ==
  /\ prog = "lint" /\ pc = "start"
  /\ Len(argv) >= 1 /\ FilesOf(argv) = <<>>
  /\ pc' = "done" /\ exit_code' = 0
  /\ UNCHANGED <<prog, argv, disk, env, results, report>>

\* lint-checker main: checker.check_files(files), results saved to
\* lint-results.json
LintCheckFiles ==
  /\ prog = "lint" /\ pc = "start"
  /\ Len(argv) >= 1 /\ FilesOf(argv) # <<>>
  /\ ~LintAborts(FilesOf(argv), disk, env.tools)
  /\ results' = LintCheckFilesOp(results, FilesOf(argv), disk, env.tools)
  /\ report' = [written |-> TRUE, body |-> results']
  /\ pc' = "checked"
  /\ UNCHANGED <<prog, argv, disk, env, exit_code>>

\* lint-checker main: an exception leaves check_files before the report is
\* written; the interpreter prints the traceback and exits with status 1
LintCrash ==
  /\ prog = "lint" /\ pc = "start"
  /\ Len(argv) >= 1 /\ FilesOf(argv) # <<>>
  /\ LintAborts(FilesOf(argv), disk, env.tools)
  /\ pc' = "done" /\ exit_code' = 1
  /\ UNCHANGED <<prog, argv, disk, env, results, report>>

\* lint-checker main returns after check_files: the interpreter exits with 0
LintExit ==
  /\ prog = "lint" /\ pc = "checked"
  /\ exit_code' = 0
  /\ pc' = "done"
  /\ UNCHANGED <<prog, argv, disk, env, results, report>>

\* ai-reviewer main: parser.parse_args() rejects a command line without
\* --files or with stray arguments (argparse exits with status 2)
AiArgError ==
  /\ prog = "ai" /\ pc = "start"
  /\ Len(argv) # 1
  /\ pc' = "done" /\ exit_code' = 2
  /\ UNCHANGED <<prog, argv, disk, env, results, report>>

\* ai-reviewer main: OPENAI_API_KEY not set
AiNoKey ==
  /\ prog = "ai" /\ pc = "start"
  /\ Len(argv) = 1 /\ ~env.api_key
  /\ pc' = "done" /\ exit_code' = 1
  /\ UNCHANGED <<prog, argv, disk, env, results, report>>

\* ai-reviewer main: not files
AiNoFiles ==
  /\ prog = "ai" /\ pc = "start"
  /\ Len(argv) = 1 /\ env.api_key /\ argv[1] = <<>>
  /\ pc' = "done" /\ exit_code' = 0
  /\ UNCHANGED <<prog, argv, disk, env, results, report>>

\* ai-reviewer main: analyze each existing file, generate the summary and
\* save it to ai-results.json
AiReview ==
  /\ prog = "ai" /\ pc = "start"
  /\ Len(argv) = 1 /\ env.api_key /\ argv[1] # <<>>
  /\ ~GitDiffBlocks(argv[1], disk, env.outs)
  /\ results' = AnalyzeLoop(argv[1], disk, env.outs)
  /\ report' = [written |-> TRUE, body |-> generate_summary(results')]
  /\ pc' = "checked"
  /\ UNCHANGED <<prog, argv, disk, env, exit_code>>

\* ai-reviewer main: the process waits for `git diff` for ever; nothing is
\* written and there is no exit status
AiHang ==
  /\ prog = "ai" /\ pc = "start"
  /\ Len(argv) = 1 /\ env.api_key /\ argv[1] # <<>>
  /\ GitDiffBlocks(argv[1], disk, env.outs)
  /\ pc' = "hung"
  /\ UNCHANGED <<prog, argv, disk, env, exit_code, results, report>>

\* ai-reviewer main returns after printing: the interpreter exits with 0
AiExit ==
  /\ prog = "ai" /\ pc = "checked"
  /\ exit_code' = 0
  /\ pc' = "done"
  /\ UNCHANGED <<prog, argv, disk, env, results, report>>

Next ==
  \/ SecUsage \/ SecNoFiles \/ SecCheckFiles \/ SecExit
  \/ LintUsage \/ LintNoFiles \/ LintCheckFiles \/ LintCrash \/ LintExit
  \/ AiArgError \/ AiNoKey \/ AiNoFiles \/ AiReview \/ AiHang \/ AiExit

Spec == Init /\ [][Next]_vars

(* ------------------- the score functions on their own ----------------- *)
\* A checker whose counted findings grow one at a time; both score functions
\* are recomputed from the counts after every addition.
Scores(e, w) ==
  [security_score |-> _calculate_security_score(e, w),
   lint_score |-> _calculate_lint_score(e, w)]

InitScore ==
  /\ prog = "score"
  /\ argv = <<>>
  /\ disk = <<>>
  /\ env = [errors |-> 0, warnings |-> 0]
  /\ pc = "counting"
  /\ exit_code = -1
  /\ results = Scores(0, 0)
  /\ report = NoReport

\* one more high (security) / error (lint) finding is counted
AddError ==
  /\ prog = "score" /\ env.errors < MaxCount
  /\ env' = [env EXCEPT !.errors = @ + 1]
  /\ results' = Scores(env'.errors, env'.warnings)
  /\ UNCHANGED <<prog, argv, disk, pc, exit_code, report>>

\* one more medium or low (security) / warning (lint) finding is counted
AddWarning ==
  /\ prog = "score" /\ env.warnings < MaxCount
  /\ env' = [env EXCEPT !.warnings = @ + 1]
  /\ results' = Scores(env'.errors, env'.warnings)
  /\ UNCHANGED <<prog, argv, disk, pc, exit_code, report>>

NextScore == AddError \/ AddWarning

SpecScore == InitScore /\ [][NextScore]_vars

(* ------------------- _get_recommendation on its own ------------------- *)
AvgInputs == {Rat(59, 1), Rat(119, 2), Rat(60, 1), Rat(85, 1)}

InitRecommend ==
  /\ prog = "recommend"
  /\ argv = <<>>
  /\ disk = <<>>
  /\ env \in [high : 0..MaxSevCount, medium : 0..MaxSevCount, low : 0..MaxSevCount,
              avg_score : AvgInputs]
  /\ pc = "start"
  /\ exit_code = -1
  /\ results = "none"
  /\ report = NoReport

Recommend ==
  /\ prog = "recommend" /\ pc = "start"
  /\ results' = _get_recommendation([high |-> env.high, medium |-> env.medium,
                                     low |-> env.low], env.avg_score)
  /\ pc' = "done"
  /\ UNCHANGED <<prog, argv, disk, env, exit_code, report>>

NextRecommend == Recommend

SpecRecommend == InitRecommend /\ [][NextRecommend]_vars

(* ---------------- one file, scanned through the classes --------------- *)
\* lines that exercise single rules: a pattern occurring twice next to a
\* second rule, a query built from a literal and an identifier, a query
\* built from literals around an identifier, calls
\* in both letter cases, two PHP functions on one line, an import, a factory
LTwice == <<"md5", "(", "md5", "(", "Math", ".", "random", "(", ")", ")", ")">>
LScenarioA ==
  <<"query", "(", "\"", "SELECT", " ", "*", " ", "FROM", " ", "users", " ", "WHERE",
    " ", "id", "=", "\"", " ", "+", " ", "userId", ")">>
LSqlConcat == <<"query", "(", "\"", "SELECT", "\"", "+", "id", "+", "\"", "\"", ")">>
LEval == <<"eval", "(", "x", "+", "y", ")">>
LEvalUpper == <<"EVAL", "(", "x", "+", "y", ")">>
LSystem == <<"system", "(", "exec", "(", "x", ")", ")">>
LSystemUpper == <<"SYSTEM", "(", "x", ")">>
LImport == <<"import", " ", "pickle">>
LXml == <<"XMLInputFactory", ".", "newInstance", "(", ")">>
ScanLines ==
  {<<>>, LClean, LHigh, LTwice, LScenarioA, LSqlConcat, LEval, LEvalUpper, LSystem,
   LSystemUpper, LImport, LXml}

\* text files of at most MaxLines lines; the last line may lack its newline
\* (a last line that is empty and unterminated is no line at all)
ScanFiles ==
  {[status |-> "unreadable", lines |-> <<>>, nl |-> FALSE]}
  \cup {f \in [status : {"ok"}, lines : SeqsUpTo(ScanLines, MaxLines), nl : BOOLEAN] :
          /\ f.lines = <<>> => ~f.nl
          /\ (f.lines # <<>> /\ ~f.nl) => f.lines[Len(f.lines)] # <<>>}

ScanPaths == {"a.js", "b.py", "c.txt", "e.php", "F.JAVA"}
LintPaths == {"c.txt", "d.rb", "F.JAVA"}

\* self.patterns is a public attribute: a caller may add a rule of its own,
\* here one whose pattern does not compile, placed before the k-th rule
BadRule == Rule("custom", "custom/0", "low", << <<Malformed>> >>)
BadPositions == {0, 1, 7, 18}
CatalogWith(k) ==
  LET cat == _load_security_patterns
  IN IF k = 0 THEN cat
     ELSE SubSeq(cat, 1, k - 1) \o <<BadRule>> \o SubSeq(cat, k, Len(cat))

\* a SecurityChecker instance: its catalog, its results record, and the lists
\* its _scan_file calls have returned so far
Checker(k) == [patterns |-> CatalogWith(k), results |-> SecurityChecker, out |-> <<>>]

\* variant of ScanCall: the issues list outlives the call, so a later call
\* starts from the findings of the earlier one
ScanCall_Accumulating(inst, path, f) ==
  [inst EXCEPT !.out = Append(@, (IF @ = <<>> THEN <<>> ELSE @[Len(@)])
                                   \o ScanWith(inst.patterns, path, f))]

\* issues = self._scan_file(file_path) on the instance inst
ScanCall(inst, path, f) ==
  [inst EXCEPT !.out = Append(@, ScanWith(inst.patterns, path, f))]

\* the severities RuboCop gives an offense (a sample of info, refactor,
\* convention, warning, error, fatal)
RubocopSeverities == {"convention", "warning", "error"}
\* what the linter of the file's language does; only rubocop is run here
ToolOutcomes(path) ==
  IF Suffix(path) = ".rb"
  THEN {NoTool} \cup {[ran |-> TRUE, messages |-> m, shaped |-> TRUE] :
                        m \in SeqsUpTo(RubocopSeverities, MaxIssues)}
  ELSE {NoTool}

InitScan ==
  /\ prog = "scan"
  /\ \E p \in ScanPaths :
       /\ argv = << <<p>> >>
       /\ disk \in [{p} -> ScanFiles]
  /\ env \in [kind : {"catalog"}, bad : BadPositions]
  /\ pc = "start"
  /\ exit_code = -1
  /\ results = Checker(env.bad)
  /\ report = NoReport

InitLintFile ==
  /\ prog = "lintfile"
  /\ \E p \in LintPaths :
       /\ argv = << <<p>> >>
       /\ disk \in [{p} -> ScanFiles]
       /\ env \in [kind : {"tool"}, tools : [{p} -> ToolOutcomes(p)]]
  /\ pc = "start"
  /\ exit_code = -1
  /\ results = LintChecker
  /\ report = NoReport

InitFile == InitScan \/ InitLintFile

\* the first _scan_file call of a checker on the file
ScanFile ==
  /\ prog = "scan" /\ pc = "start"
  /\ results' = ScanCall(results, argv[1][1], disk[argv[1][1]])
  /\ pc' = "scanned"
  /\ UNCHANGED <<prog, argv, disk, env, exit_code, report>>

\* a second _scan_file call of the same checker on the unchanged file
ScanAgain ==
  /\ prog = "scan" /\ pc = "scanned"
  /\ results' = ScanCall(results, argv[1][1], disk[argv[1][1]])
  /\ pc' = "rescanned"
  /\ UNCHANGED <<prog, argv, disk, env, exit_code, report>>

\* a _scan_file call of a second checker, built the same way, on the
\* unchanged file; the returned list is kept next to the first one
ScanOnNew ==
  /\ prog = "scan" /\ pc = "scanned"
  /\ results' = ScanCall([Checker(env.bad) EXCEPT !.out = results.out],
                         argv[1][1], disk[argv[1][1]])
  /\ pc' = "rescanned_new"
  /\ UNCHANGED <<prog, argv, disk, env, exit_code, report>>

\* check_files([path]) of a new LintChecker, results saved to lint-results.json
LintFile ==
  /\ prog = "lintfile" /\ pc = "start"
  /\ results' = LintCheckFilesOp(results, FilesOf(argv), disk, env.tools)
  /\ report' = [written |-> TRUE, body |-> results']
  /\ pc' = "checked"
  /\ UNCHANGED <<prog, argv, disk, env, exit_code>>

NextFile == ScanFile \/ ScanAgain \/ ScanOnNew \/ LintFile

SpecFile == InitFile /\ [][NextFile]_vars

(* ------------- a checker used as a library, call after call ----------- *)
\* a.js holds up to MaxLibLines lines, c.txt up to MaxLines lines or is absent
LibLines == {LHigh, LWeak, LEval}
LibFilesA ==
  {[status |-> "ok", lines |-> ls, nl |-> ls # <<>>] : ls \in SeqsUpTo(LibLines, MaxLibLines)}
LibFilesC ==
  {[status |-> "missing", lines |-> <<>>, nl |-> FALSE]}
  \cup {[status |-> "ok", lines |-> ls, nl |-> ls # <<>>] : ls \in SeqsUpTo(LibLines, MaxLines)}
LibDisks == {d \in [Paths -> LibFilesA \cup LibFilesC] :
               d["a.js"] \in LibFilesA /\ d["c.txt"] \in LibFilesC}
\* the file lists a caller passes to check_files
LibLists == {<<"a.js">>, <<"c.txt", "a.js">>}
\* eslint is absent, or reports an error and a warning for a.js
LibTools ==
  {[p \in Paths |-> NoTool],
   [p \in Paths |-> IF p = "a.js"
                    THEN [ran |-> TRUE, messages |-> <<2, 1>>, shaped |-> TRUE]
                    ELSE NoTool]}

\* env.history is the file lists of the check_files calls made so far
InitLibrary ==
  /\ prog \in {"seclib", "lintlib"}
  /\ argv = <<>>
  /\ disk \in LibDisks
  /\ env \in [kind : {"library"}, history : {<<>>}, tools : LibTools]
  /\ prog = "seclib" => env.tools = [p \in Paths |-> NoTool]
  /\ pc = "idle"
  /\ exit_code = -1
  /\ results = (IF prog = "seclib" THEN SecurityChecker ELSE LintChecker)
  /\ report = NoReport

\* one more checker.check_files(files) on the SecurityChecker
SecCall ==
  /\ prog = "seclib" /\ Len(env.history) < MaxCalls
  /\ \E files \in LibLists :
       /\ results' = SecCheckFilesOp(results, files, disk)
       /\ env' = [env EXCEPT !.history = Append(@, files)]
  /\ report' = [written |-> TRUE, body |-> results']
  /\ UNCHANGED <<prog, argv, disk, pc, exit_code>>

\* one more checker.check_files(files) on the LintChecker
LintCall ==
  /\ prog = "lintlib" /\ Len(env.history) < MaxCalls
  /\ \E files \in LibLists :
       /\ results' = LintCheckFilesOp(results, files, disk, env.tools)
       /\ env' = [env EXCEPT !.history = Append(@, files)]
  /\ report' = [written |-> TRUE, body |-> results']
  /\ UNCHANGED <<prog, argv, disk, pc, exit_code>>

NextLibrary == SecCall \/ LintCall

SpecLibrary == InitLibrary /\ [][NextLibrary]_vars

(* ------------------------------ claims -------------------------------- *)
\* the paths handed to check_files / analysed by ai-reviewer in this run
Files == FilesOf(argv)
\* positions of Files that name a file present on disk
Present == {i \in DOMAIN Files : Files[i] \in Paths /\ disk[Files[i]].status # "missing"}
Ran == report.written
SevCount(issues, sev) == Cardinality({k \in DOMAIN issues : issues[k].severity = sev})
NonSevCount(issues, sev) == Cardinality({k \in DOMAIN issues : issues[k].severity # sev})
\* the scan of some supplied file yields a high-severity finding
HighFound ==
  \E i \in Present :
    LET fs == _scan_file(Files[i], disk[Files[i]])
    IN \E k \in DOMAIN fs : fs[k].severity = "high"

\* C1: a run of security-checker main that scanned exits with status 0 when
\* the scan produced no high-severity finding and with a non-zero status
\* when it produced at least one.
C1_SecurityExitStatus ==
  (prog = "security" /\ pc = "done" /\ Ran) =>
     /\ ~HighFound => exit_code = 0
     /\ HighFound => exit_code > 0

C1_Witness ==
  prog = "security" /\ pc = "done" /\ Ran /\ HighFound /\ exit_code = 1

\* C2: a run of lint-checker main exits with a non-zero status when at least
\* one error-severity lint issue was found and with 0 when none was found.
C2_LintExitStatus ==
  (prog = "lint" /\ pc = "done" /\ Ran) =>
     /\ SevCount(results.style_issues, "error") > 0 => exit_code > 0
     /\ SevCount(results.style_issues, "error") = 0 => exit_code = 0

\* C3: both scores are always within [0,100] and never increase when one more
\* finding is counted.
C3_ScoreBoundedMonotone ==
  /\ [](prog = "score" =>
          /\ results.security_score \in 0..100
          /\ results.lint_score \in 0..100)
  /\ [][prog = "score" =>
          /\ results'.security_score <= results.security_score
          /\ results'.lint_score <= results.lint_score]_vars

C3_Witness ==
  /\ prog = "score" /\ env.errors = 7 /\ env.warnings = 11
  /\ results.security_score = 0 /\ results.lint_score = 8

\* C4: after one check_files call on a fresh checker the security score is
\* max(0, 100 - 15*H - 5*(M+L)) and the lint score is max(0, 100 - 10*E - 2*W)
\* (W the findings that are not errors); one high finding and nothing else
\* gives score 85 and exit code 1.
C4_ScoreFormula ==
  /\ (prog = "security" /\ Ran) =>
       LET H == SevCount(results.vulnerabilities, "high")
           M == SevCount(results.vulnerabilities, "medium")
           L == SevCount(results.vulnerabilities, "low")
           raw == 100 - 15 * H - 5 * (M + L)
       IN /\ H + M + L = Len(results.vulnerabilities)
          /\ results.security_score = (IF raw < 0 THEN 0 ELSE raw)
          /\ (H = 1 /\ M + L = 0) => results.security_score = 85
          /\ (H = 1 /\ M + L = 0 /\ pc = "done") => exit_code = 1
  /\ (prog = "lint" /\ Ran) =>
       LET E == SevCount(results.style_issues, "error")
           W == NonSevCount(results.style_issues, "error")
           raw == 100 - 10 * E - 2 * W
       IN results.lint_score = (IF raw < 0 THEN 0 ELSE raw)

C4_Witness ==
  /\ prog = "security" /\ pc = "done" /\ Ran
  /\ Len(results.vulnerabilities) = 1
  /\ results.vulnerabilities[1].severity = "high"
  /\ results.security_score = 85 /\ exit_code = 1

\* C5: the values of severity_breakdown sum to the total number of findings
\* (total_issues in generate_summary; errors + warnings = number of
\* vulnerabilities after one check_files call on a fresh SecurityChecker).
C5_BreakdownSumsToTotal ==
  /\ (prog = "ai" /\ Ran) =>
       LET sm == report.body.summary
       IN sm.severity_breakdown.high + sm.severity_breakdown.medium
            + sm.severity_breakdown.low = sm.total_issues
  /\ (prog = "security" /\ Ran) =>
       results.errors + results.warnings = Len(results.vulnerabilities)

\* C6: _get_recommendation is the first-match decision list high > 0 /
\* medium > 3 / score < 60 / medium > 0 or low > 5 / otherwise; no high and
\* four medium findings give 'caution' whatever the score.
C6_DecisionList ==
  (prog = "recommend" /\ pc = "done") =>
     LET below == env.avg_score.num < 60 * env.avg_score.den
     IN /\ (results = "Not Recommended for Merge") <=> (env.high > 0)
        /\ (results = "Merge with Caution") <=> (env.high = 0 /\ env.medium > 3)
        /\ (results = "Needs Improvement") <=>
             (env.high = 0 /\ env.medium <= 3 /\ below)
        /\ (results = "Approved with Suggestions") <=>
             (env.high = 0 /\ env.medium <= 3 /\ ~below
                /\ (env.medium > 0 \/ env.low > 5))
        /\ (results = "Approved") <=>
             (env.high = 0 /\ env.medium = 0 /\ ~below /\ env.low <= 5)
        /\ (env.high = 0 /\ env.medium = 4) => results = "Merge with Caution"

C6_Witness ==
  /\ prog = "recommend" /\ pc = "done"
  /\ env.high = 0 /\ env.medium = 4 /\ env.avg_score = Rat(59, 1)
  /\ results = "Merge with Caution"

\* what the report says
TotalFiles ==
  IF prog = "ai" THEN report.body.summary.total_files_analyzed ELSE results.total_files
FilesWithIssues ==
  IF prog = "ai" THEN report.body.summary.files_with_issues ELSE results.files_with_issues
FindingCount ==
  CASE prog = "security" -> Len(results.vulnerabilities)
    [] prog = "lint" -> Len(results.style_issues)
    [] OTHER -> report.body.summary.total_issues
\* the findings the i-th supplied file yields, from the disk and the tools
Yield(i) ==
  LET p == Files[i]
  IN CASE prog = "security" -> _scan_file(p, disk[p])
       [] prog = "lint" ->
            LintRoute(p, disk[p], env.tools[p]) \o _check_common_issues(p, disk[p])
       [] OTHER ->
            IF disk[p].status = "ok" /\ env.outs[p].diff
            THEN env.outs[p].analysis.issues ELSE <<>>

C8_FilesWithIssues ==
  Ran =>
    /\ FilesWithIssues = Cardinality({i \in Present : Yield(i) # <<>>})
    /\ FilesWithIssues <= TotalFiles

C8_Witness ==
  prog = "security" /\ Ran /\ TotalFiles = 2 /\ FilesWithIssues = 1

\* no file argument, or a single file argument that contains no path
NoArgument == Len(argv) = 0
BlankArgument == Len(argv) = 1 /\ argv[1] = <<>>

\* C9 (as claimed): when no files are supplied the program exits with
\* status 0.
C9_NoFilesExitsZero ==
  (pc = "done" /\ (NoArgument \/ BlankArgument)) => exit_code = 0

\* C9 (amended): a file argument that contains no path makes the program exit
\* with status 0 without scanning or writing a report (ai-reviewer: provided
\* OPENAI_API_KEY is set, otherwise status 1); with no file argument at all
\* security-checker and lint-checker exit with status 1 and ai-reviewer's
\* argument parser with status 2.
C9_BlankArgumentExitsZero ==
  pc = "done" =>
    /\ (BlankArgument /\ (prog = "ai" => env.api_key)) =>
          exit_code = 0 /\ ~Ran
    /\ (BlankArgument /\ prog = "ai" /\ ~env.api_key) => exit_code = 1 /\ ~Ran
    /\ NoArgument => exit_code = (IF prog = "ai" THEN 2 ELSE 1) /\ ~Ran

C9_Witness ==
  prog = "security" /\ pc = "done" /\ BlankArgument /\ exit_code = 0 /\ ~Ran

\* the batch was processed and no file yielded a finding
CleanBatch == Ran /\ \A i \in Present : Yield(i) = <<>>
\* positions whose file ai-reviewer got an analysis for
Analysed == {i \in Present : disk[Files[i]].status = "ok" /\ env.outs[Files[i]].diff}
ScoreSum ==
  SumSeq([i \in DOMAIN Files |->
            IF i \in Analysed THEN env.outs[Files[i]].analysis.overall_score ELSE 0])

ReadFails(i) == Files[i] \notin Paths \/ disk[Files[i]].status # "ok"
\* the per-file entries of the written report
Entries ==
  CASE prog = "security" -> results.vulnerabilities
    [] prog = "lint" -> results.style_issues
    [] OTHER -> report.body.detailed_results
\* the report holds an entry for path p that records an error
ErrorRecorded(p) ==
  \E k \in DOMAIN Entries :
    /\ Entries[k].file = p
    /\ IF prog = "ai" THEN Entries[k].kind = "error" ELSE "error" \in DOMAIN Entries[k]
\* the findings the report holds for path p
ReportedFor(p) ==
  IF prog = "ai"
  THEN Concat([k \in DOMAIN Entries |->
                 IF Entries[k].file = p THEN IssuesOf(Entries[k]) ELSE <<>>])
  ELSE LET isP(v) == v.file = p IN SelectSeq(Entries, isP)

\* C11: in a report of security-checker or ai-reviewer every supplied file
\* whose read failed has an entry with the error set and no findings, and the
\* findings of every other supplied file are reported.
C11_ReadFailureRecorded ==
  (Ran /\ prog \in {"security", "ai"}) =>
    \A i \in DOMAIN Files :
      /\ ReadFails(i) => ErrorRecorded(Files[i]) /\ ReportedFor(Files[i]) = <<>>
      /\ (~ReadFails(i) /\ \A j \in DOMAIN Files : j # i => Files[j] # Files[i])
            => ReportedFor(Files[i]) = Yield(i)

\* C13: no run waits for an external tool for ever, and a run that was given
\* files ends with the batch reported whatever the tools did.
C13_ToolFailureContained ==
  /\ pc # "hung"
  /\ (prog = "lint" /\ pc = "done" /\ Len(argv) >= 1 /\ Files # <<>>) => Ran


\* the file of a single-file run, and the list its first scan returned
ThePath == argv[1][1]
TheFile == disk[ThePath]
Scanned == prog = "scan" /\ pc # "start"
Out == results.out[1]
\* the checker has the catalog of _load_security_patterns and nothing else
Shipped == env.bad = 0

\* C12: a rule whose evaluation raises is skipped and nothing else is: the
\* scan returns the findings of all the other rules on all lines, which are
\* the findings of the catalog without that rule.
C12_BadRuleIsolated ==
  Scanned => Out = _scan_file(ThePath, TheFile)

\* the places (rule, line) of a list of findings
Places(fs) == {<<fs[k].rule, fs[k].line>> : k \in DOMAIN fs}
\* the rules applied to a file: the catalog and the tests of its language
JsRules == {"js-eval", "js-proto"}
PhpRules == {dangerous_functions[k] : k \in DOMAIN dangerous_functions}
CatalogIds == {_load_security_patterns[k].id : k \in DOMAIN _load_security_patterns}
LanguageRules(ext) ==
  CASE ext \in {".js", ".ts", ".jsx", ".tsx"} -> JsRules
    [] ext = ".py" -> {"py-import"}
    [] ext = ".java" -> {"java-xml"}
    [] ext = ".php" -> PhpRules
    [] OTHER -> {}

\* C14: in the list _scan_file returns no two findings have the same rule and
\* the same line, and every catalog rule whose pattern matches a line has a
\* finding for that line.
C14_OneFindingPerRuleAndLine ==
  (Scanned /\ Shipped) =>
    /\ \A i, j \in DOMAIN Out :
         (Out[i].rule = Out[j].rule /\ Out[i].line = Out[j].line) => i = j
    /\ TheFile.status = "ok" =>
         \A k \in DOMAIN _load_security_patterns : \A n \in DOMAIN TheFile.lines :
           re_search(_load_security_patterns[k].pattern, TheFile.lines[n], TRUE)
             => <<_load_security_patterns[k].id, n>> \in Places(Out)

C14_Witness ==
  /\ Scanned /\ Shipped /\ ThePath = "c.txt"
  /\ TheFile.status = "ok" /\ TheFile.lines = <<LTwice>>
  /\ Occurrences(_load_security_patterns[6].pattern, LTwice, TRUE) = 2
  /\ Places(Out) = {<<"insecure_crypto/0", 1>>, <<"insecure_crypto/1", 1>>}
  /\ Len(Out) = 2


\* the file with every letter of every line in lower case
LowerFile(f) ==
  [status |-> f.status, nl |-> f.nl,
   lines |-> [n \in DOMAIN f.lines |->
                [i \in DOMAIN f.lines[n] |-> Lower(f.lines[n][i])]]]

\* C15: every rule is tested case-insensitively: a file and the same file in
\* lower case give findings of the same rules at the same lines.
C15_CaseInsensitive ==
  (Scanned /\ Shipped /\ TheFile.status = "ok") =>
    Places(Out) = Places(_scan_file(ThePath, LowerFile(TheFile)))

IsUniversal(v) == v.rule \in CatalogIds

\* C16: the findings of the catalog rules are the same whatever the extension
\* of the file, every other finding comes from a test of the language the
\* extension selects, and a file of no known language has catalog findings
\* only.
C16_RuleSetByExtension ==
  (Scanned /\ Shipped) =>
    LET uni == SelectSeq(Out, IsUniversal)
        plain == _scan_file("c.txt", TheFile)
    IN /\ Len(uni) = Len(plain)
       /\ \A k \in DOMAIN uni : uni[k] = [plain[k] EXCEPT !.file = ThePath]
       /\ \A k \in DOMAIN Out :
            ~IsUniversal(Out[k]) => Out[k].rule \in LanguageRules(Suffix(ThePath))
       /\ Suffix(ThePath) \notin {".js", ".ts", ".jsx", ".tsx", ".py", ".java", ".php"}
            => uni = Out

C16_Witness ==
  /\ Scanned /\ Shipped /\ ThePath = "c.txt"
  /\ TheFile.status = "ok" /\ TheFile.lines = <<LEval>>
  /\ _check_javascript_security("a.js", TheFile.lines) # <<>>
  /\ Places(Out) = {<<"xss/2", 1>>}

\* C17: in a file of a scripting language every line that reads
\* query("SELECT * FROM users WHERE id=" + userId) has exactly one finding of
\* category sql_injection, and it has severity high.
C17_ScenarioA ==
  (Scanned /\ Shipped /\ TheFile.status = "ok"
     /\ Suffix(ThePath) \in {".js", ".py", ".php"}) =>
    \A n \in DOMAIN TheFile.lines :
      TheFile.lines[n] = LScenarioA =>
        LET hits == {k \in DOMAIN Out :
                       Out[k].line = n /\ Out[k].category = "sql_injection"}
        IN Cardinality(hits) = 1 /\ \A k \in hits : Out[k].severity = "high"


\* C18: every finding of the security scanner has severity high, medium or
\* low and every issue of the lint checker has severity error or warning.
C18_SeverityDomain ==
  /\ Scanned =>
       \A k \in DOMAIN Out : Out[k].severity \in {"high", "medium", "low"}
  /\ (prog = "lintfile" /\ Ran) =>
       \A k \in DOMAIN results.style_issues :
         results.style_issues[k].severity \in {"error", "warning"}

\* the number of lines of the file as it is on disk; a last line without a
\* newline is a line, the empty file has none
PhysicalLines(f) == Len(f.lines)
CommonCategories == {"whitespace", "line-length", "indentation"}

\* C19: the line number of every finding of _scan_file and of every issue of
\* _check_common_issues is at least 1 and at most the number of lines of the
\* file.
C19_LineNumbersInFile ==
  /\ Scanned =>
       \A k \in DOMAIN Out :
         1 <= Out[k].line /\ Out[k].line <= PhysicalLines(TheFile)
  /\ (prog = "lintfile" /\ Ran) =>
       \A k \in DOMAIN results.style_issues :
         results.style_issues[k].category \in CommonCategories =>
           /\ 1 <= results.style_issues[k].line
           /\ results.style_issues[k].line <= PhysicalLines(TheFile)

C19_Witness ==
  /\ Scanned /\ Shipped /\ ThePath = "c.txt"
  /\ TheFile.status = "ok" /\ TheFile.nl /\ TheFile.lines = <<LHigh>>
  /\ Len(Split(TheFile)) = 2
  /\ Len(Out) = 1 /\ Out[1].line = 1

C21_CountsMatchFindings ==
  /\ prog = "seclib" =>
       /\ results.errors + results.warnings = Len(results.vulnerabilities)
       /\ results.errors = SevCount(results.vulnerabilities, "high")
       /\ results.security_score =
            _calculate_security_score(SevCount(results.vulnerabilities, "high"),
                                      NonSevCount(results.vulnerabilities, "high"))
  /\ prog = "lintlib" =>
       /\ results.errors + results.warnings = Len(results.style_issues)
       /\ results.errors = SevCount(results.style_issues, "error")
       /\ results.lint_score =
            _calculate_lint_score(SevCount(results.style_issues, "error"),
                                  NonSevCount(results.style_issues, "error"))


\* the place of a finding's rule in the order the rules are applied: its
\* index in the catalog, or after the whole catalog for a language test
RuleIndex(v) ==
  IF v.rule \in CatalogIds
  THEN CHOOSE k \in DOMAIN _load_security_patterns : _load_security_patterns[k].id = v.rule
  ELSE Len(_load_security_patterns) + 1
\* fs is ordered by rule, and by line within a catalog rule
RuleMajor(fs) ==
  \A i, j \in DOMAIN fs :
    i < j =>
      \/ RuleIndex(fs[i]) < RuleIndex(fs[j])
      \/ /\ RuleIndex(fs[i]) = RuleIndex(fs[j])
         /\ IsUniversal(fs[i]) => fs[i].line < fs[j].line
\* what the files of one check_files call add to vulnerabilities
BlockOf(files) ==
  Concat([i \in DOMAIN files |->
            IF exists(disk, files[i]) THEN _scan_file(files[i], disk[files[i]]) ELSE <<>>])

\* C22: the findings of one file are ordered by rule in catalog order, by
\* line within a rule, with the language-specific findings last; the files'
\* findings follow one another in the order of the file list, call after call.
C22_RuleMajorOrder ==
  prog = "seclib" =>
    /\ results.vulnerabilities =
         Concat([c \in DOMAIN env.history |-> BlockOf(env.history[c])])
    /\ \A p \in Paths : RuleMajor(_scan_file(p, disk[p]))

\* a finding of line 2 precedes a finding of line 1 of the same file, and a
\* language-specific finding of line 1 follows a catalog finding of line 2
C22_Witness ==
  /\ prog = "seclib" /\ env.history = << <<"c.txt", "a.js">> >>
  /\ disk["c.txt"].status = "ok" /\ disk["c.txt"].lines = <<LHigh>>
  /\ disk["a.js"].lines = <<LEval, LWeak>>
  /\ [k \in DOMAIN results.vulnerabilities |->
        <<results.vulnerabilities[k].file, results.vulnerabilities[k].rule,
          results.vulnerabilities[k].line>>]
       = << <<"c.txt", "insecure_deserialization/0", 1>>,
            <<"a.js", "xss/2", 1>>,
            <<"a.js", "insecure_crypto/0", 2>>,
            <<"a.js", "insecure_crypto/1", 2>>,
            <<"a.js", "js-eval", 1>> >>


=============================================================================
